---- MODULE Spec2Model ----
(* Model of the generic interval module of noop5_2.py: the frozen value    *)
(* type Range [start, end) and the RangeContainer that collects ranges.   *)
(* The ordered value domain is the integers 0..MaxVal (ComparableInt).     *)
EXTENDS Integers, Sequences, FiniteSets, TLC

VARIABLES name, ranges, added, result

vars == <<name, ranges, added, result>>

(* ------------------------------ bounds -------------------------------- *)

MaxVal == 3

MaxLen == 3

Domain == 0..MaxVal

\* The name the container is constructed with.
ContainerName == "TestContainer"

(* --------------------------- Python values ---------------------------- *)

None == [kind |-> "None"]

InvalidRangeError == [kind |-> "ValueError", raisedBy |-> "__post_init__"]

PointNotInRangeError == [kind |-> "ValueError", raisedBy |-> "split"]

IsError(x) == x.kind = "ValueError"

List(items) == [kind |-> "list", items |-> items]

Bool(b) == [kind |-> "bool", val |-> b]

min(a, b) == IF b < a THEN b ELSE a

max(a, b) == IF b > a THEN b ELSE a

(* ------------------------------- Range --------------------------------- *)

\* The constructor with the check weakened to start > end.
Range_AcceptsEmpty(start, end) ==
    IF start > end
    THEN InvalidRangeError
    ELSE [kind |-> "Range", start |-> start, end |-> end]

\* Range(start, end): the dataclass constructor followed by __post_init__.
Range(start, end) ==
    IF start >= end
    THEN InvalidRangeError
    ELSE [kind |-> "Range", start |-> start, end |-> end]

\* Every Range instance over the domain: the pairs the constructor accepts.
ValidRanges ==
    {[kind |-> "Range", start |-> p[1], end |-> p[2]] :
        p \in {q \in Domain \X Domain : q[1] < q[2]}}

contains(self, value) == self.start <= value /\ value < self.end

\* Overlap of closed intervals: a shared boundary point counts.
overlaps_Closed(self, other) == ~(self.end < other.start \/ self.start > other.end)

overlaps(self, other) == ~(self.end <= other.start \/ self.start >= other.end)

is_adjacent_to(self, other) == self.end = other.start \/ self.start = other.end

intersection(self, other) ==
    IF ~overlaps(self, other)
    THEN None
    ELSE Range(max(self.start, other.start), min(self.end, other.end))

\* Union that joins overlapping ranges only.
union_OverlapOnly(self, other) ==
    IF ~overlaps(self, other)
    THEN List(<<self, other>>)
    ELSE LET r == Range(min(self.start, other.start), max(self.end, other.end))
         IN  IF IsError(r) THEN r ELSE List(<<r>>)

union(self, other) ==
    IF ~overlaps(self, other) /\ ~is_adjacent_to(self, other)
    THEN List(<<self, other>>)
    ELSE LET r == Range(min(self.start, other.start), max(self.end, other.end))
         IN  IF IsError(r) THEN r ELSE List(<<r>>)

\* Split that admits interior points only.
split_Interior(self, point) ==
    IF ~(self.start < point /\ point < self.end)
    THEN PointNotInRangeError
    ELSE LET left  == Range(self.start, point)
             right == Range(point, self.end)
         IN  IF IsError(left) THEN left
             ELSE IF IsError(right) THEN right
             ELSE List(<<left, right>>)

split(self, point) ==
    IF ~contains(self, point)
    THEN PointNotInRangeError
    ELSE LET left  == Range(self.start, point)
             right == Range(point, self.end)
         IN  IF IsError(left) THEN left
             ELSE IF IsError(right) THEN right
             ELSE List(<<left, right>>)

(* --------------------------- RangeContainer ---------------------------- *)

RangeContainer(n, rs) == [kind |-> "RangeContainer", name |-> n, ranges |-> rs]

\* Position at which a stable sort by start places r in the sorted prefix s:
\* after every element whose start is not greater than r.start.
RECURSIVE InsertByStart(_, _)
InsertByStart(s, r) ==
    IF s = <<>> THEN <<r>>
    ELSE IF Head(s).start <= r.start
         THEN <<Head(s)>> \o InsertByStart(Tail(s), r)
         ELSE <<r>> \o s

\* The sort left out: the sweep sees the ranges in insertion order.
sorted_by_start_Unsorted(rs) == rs

\* sorted(rs, key=lambda x: x.start): stable, keyed on start only.
RECURSIVE sorted_by_start(_)
sorted_by_start(rs) ==
    IF rs = <<>> THEN <<>>
    ELSE InsertByStart(sorted_by_start(SubSeq(rs, 1, Len(rs) - 1)), rs[Len(rs)])

\* The sweep joining overlapping ranges only, adjacent ones kept apart.
RECURSIVE MergeSweep_OverlapOnly(_, _)
MergeSweep_OverlapOnly(merged, rest) ==
    IF rest = <<>> THEN List(merged)
    ELSE LET current == Head(rest)
             last    == merged[Len(merged)]
         IN  IF overlaps(last, current)
             THEN LET r == Range(min(last.start, current.start),
                                 max(last.end, current.end))
                  IN  IF IsError(r) THEN r
                      ELSE MergeSweep_OverlapOnly([merged EXCEPT ![Len(merged)] = r],
                                                  Tail(rest))
             ELSE MergeSweep_OverlapOnly(Append(merged, current), Tail(rest))

\* The sweep taking the end of the current range instead of the larger end.
RECURSIVE MergeSweep_CurrentEnd(_, _)
MergeSweep_CurrentEnd(merged, rest) ==
    IF rest = <<>> THEN List(merged)
    ELSE LET current == Head(rest)
             last    == merged[Len(merged)]
         IN  IF overlaps(last, current) \/ is_adjacent_to(last, current)
             THEN LET r == Range(min(last.start, current.start), current.end)
                  IN  IF IsError(r) THEN r
                      ELSE MergeSweep_CurrentEnd([merged EXCEPT ![Len(merged)] = r],
                                                 Tail(rest))
             ELSE MergeSweep_CurrentEnd(Append(merged, current), Tail(rest))

\* The sweep of merge_overlapping_ranges over sorted_ranges[1:].
RECURSIVE MergeSweep(_, _)
MergeSweep(merged, rest) ==
    IF rest = <<>> THEN List(merged)
    ELSE LET current == Head(rest)
             last    == merged[Len(merged)]
         IN  IF overlaps(last, current) \/ is_adjacent_to(last, current)
             THEN LET r == Range(min(last.start, current.start),
                                 max(last.end, current.end))
                  IN  IF IsError(r) THEN r
                      ELSE MergeSweep([merged EXCEPT ![Len(merged)] = r], Tail(rest))
             ELSE MergeSweep(Append(merged, current), Tail(rest))

merge_overlapping_ranges(n, rs) ==
    IF rs = <<>>
    THEN RangeContainer(n \o "_merged", <<>>)
    ELSE LET sorted_ranges == sorted_by_start(rs)
             m == MergeSweep(<<sorted_ranges[1]>>, Tail(sorted_ranges))
         IN  IF IsError(m) THEN m
             ELSE RangeContainer(n \o "_merged", m.items)

RECURSIVE MinOf(_)
MinOf(s) == IF Len(s) = 1 THEN s[1] ELSE min(MinOf(Tail(s)), s[1])

RECURSIVE MaxOf(_)
MaxOf(s) == IF Len(s) = 1 THEN s[1] ELSE max(MaxOf(Tail(s)), s[1])

\* Coverage read off the first and the last range, as if the list were sorted.
get_total_coverage_FirstLast(rs) ==
    IF rs = <<>>
    THEN None
    ELSE Range(rs[1].start, rs[Len(rs)].end)

get_total_coverage(rs) ==
    IF rs = <<>>
    THEN None
    ELSE LET starts == [i \in 1..Len(rs) |-> rs[i].start]
             ends   == [i \in 1..Len(rs) |-> rs[i].end]
         IN  Range(MinOf(starts), MaxOf(ends))

\* The search returning the last matching range.
RECURSIVE find_containing_range_Last(_, _)
find_containing_range_Last(rs, value) ==
    IF rs = <<>> THEN None
    ELSE IF contains(rs[Len(rs)], value) THEN rs[Len(rs)]
    ELSE find_containing_range_Last(SubSeq(rs, 1, Len(rs) - 1), value)

RECURSIVE find_containing_range(_, _)
find_containing_range(rs, value) ==
    IF rs = <<>> THEN None
    ELSE IF contains(Head(rs), value) THEN Head(rs)
    ELSE find_containing_range(Tail(rs), value)

RECURSIVE filter_by_value(_, _)
filter_by_value(rs, value) ==
    IF rs = <<>> THEN <<>>
    ELSE IF contains(Head(rs), value)
         THEN <<Head(rs)>> \o filter_by_value(Tail(rs), value)
         ELSE filter_by_value(Tail(rs), value)

\* The loop of get_gaps over i = 0 .. len(sorted_ranges) - 2.
RECURSIVE GapSweep(_, _, _)
GapSweep(sorted_ranges, i, gaps) ==
    IF i > Len(sorted_ranges) - 1 THEN List(gaps)
    ELSE LET current    == sorted_ranges[i]
             next_range == sorted_ranges[i + 1]
         IN  IF current.end < next_range.start
             THEN LET g == Range(current.end, next_range.start)
                  IN  IF IsError(g) THEN g
                      ELSE GapSweep(sorted_ranges, i + 1, Append(gaps, g))
             ELSE GapSweep(sorted_ranges, i + 1, gaps)

get_gaps(rs) ==
    IF Len(rs) < 2
    THEN List(<<>>)
    ELSE GapSweep(sorted_by_start(rs), 1, <<>>)

(* ------------------------------ actions -------------------------------- *)

Init ==
    /\ name = ContainerName
    /\ ranges = <<>>
    /\ added = <<>>
    /\ result = [op |-> "__init__", out |-> None]

\* c.add_range(r)
AddRange(r) ==
    /\ Len(ranges) < MaxLen
    /\ ranges' = Append(ranges, r)
    /\ added' = Append(added, r)
    /\ result' = [op |-> "add_range", out |-> None]
    /\ UNCHANGED name

\* c.add_ranges(r1, r2)
AddRanges(rs) ==
    /\ Len(ranges) + Len(rs) <= MaxLen
    /\ ranges' = ranges \o rs
    /\ added' = added \o rs
    /\ result' = [op |-> "add_ranges", out |-> None]
    /\ UNCHANGED name

FindContainingRange(value) ==
    /\ result' = [op |-> "find_containing_range", value |-> value,
                  out |-> find_containing_range(ranges, value)]
    /\ UNCHANGED <<name, ranges, added>>

\* The merge sorting the receiver's own list in place.
MergeOverlappingRanges_InPlace ==
    /\ result' = [op |-> "merge_overlapping_ranges",
                  out |-> merge_overlapping_ranges(name, ranges)]
    /\ ranges' = sorted_by_start(ranges)
    /\ UNCHANGED <<name, added>>

MergeOverlappingRanges ==
    /\ result' = [op |-> "merge_overlapping_ranges",
                  out |-> merge_overlapping_ranges(name, ranges)]
    /\ UNCHANGED <<name, ranges, added>>

GetTotalCoverage ==
    /\ result' = [op |-> "get_total_coverage", out |-> get_total_coverage(ranges)]
    /\ UNCHANGED <<name, ranges, added>>

FilterByValue(value) ==
    /\ result' = [op |-> "filter_by_value", value |-> value,
                  out |-> List(filter_by_value(ranges, value))]
    /\ UNCHANGED <<name, ranges, added>>

GetGaps ==
    /\ result' = [op |-> "get_gaps", out |-> get_gaps(ranges)]
    /\ UNCHANGED <<name, ranges, added>>

\* Range(a, b) called with arbitrary endpoints.
Construct(a, b) ==
    /\ result' = [op |-> "Range", a |-> a, b |-> b, out |-> Range(a, b)]
    /\ UNCHANGED <<name, ranges, added>>

Contains(self, value) ==
    /\ result' = [op |-> "contains", self |-> self, value |-> value,
                  out |-> Bool(contains(self, value))]
    /\ UNCHANGED <<name, ranges, added>>

Overlaps(self, other) ==
    /\ result' = [op |-> "overlaps", self |-> self, other |-> other,
                  out |-> Bool(overlaps(self, other))]
    /\ UNCHANGED <<name, ranges, added>>

IsAdjacentTo(self, other) ==
    /\ result' = [op |-> "is_adjacent_to", self |-> self, other |-> other,
                  out |-> Bool(is_adjacent_to(self, other))]
    /\ UNCHANGED <<name, ranges, added>>

Intersection(self, other) ==
    /\ result' = [op |-> "intersection", self |-> self, other |-> other,
                  out |-> intersection(self, other)]
    /\ UNCHANGED <<name, ranges, added>>

Union(self, other) ==
    /\ result' = [op |-> "union", self |-> self, other |-> other,
                  out |-> union(self, other)]
    /\ UNCHANGED <<name, ranges, added>>

Split(self, point) ==
    /\ result' = [op |-> "split", self |-> self, point |-> point,
                  out |-> split(self, point)]
    /\ UNCHANGED <<name, ranges, added>>

\* The operations of one RangeContainer.
Next ==
    \/ \E r \in ValidRanges : AddRange(r)
    \/ \E r1, r2 \in ValidRanges : AddRanges(<<r1, r2>>)
    \/ \E v \in Domain : FindContainingRange(v)
    \/ MergeOverlappingRanges
    \/ GetTotalCoverage
    \/ \E v \in Domain : FilterByValue(v)
    \/ GetGaps

Spec == Init /\ [][Next]_vars

\* The operations of a single Range value, applied to every pair of ranges
\* and every point of the domain.
RangeNext ==
    \/ \E a, b \in Domain : Construct(a, b)
    \/ \E r \in ValidRanges, v \in Domain : Contains(r, v)
    \/ \E r1, r2 \in ValidRanges : Overlaps(r1, r2)
    \/ \E r1, r2 \in ValidRanges : IsAdjacentTo(r1, r2)
    \/ \E r1, r2 \in ValidRanges : Intersection(r1, r2)
    \/ \E r1, r2 \in ValidRanges : Union(r1, r2)
    \/ \E r \in ValidRanges, p \in Domain : Split(r, p)

RangeSpec == Init /\ [][RangeNext]_vars

\* The constructor together with the container operations that build ranges.
ConstructNext ==
    \/ \E a, b \in Domain : Construct(a, b)
    \/ \E r \in ValidRanges : AddRange(r)
    \/ \E r1, r2 \in ValidRanges : AddRanges(<<r1, r2>>)
    \/ MergeOverlappingRanges
    \/ GetTotalCoverage
    \/ GetGaps

ConstructSpec == Init /\ [][ConstructNext]_vars

(* ----------------------------- properties ------------------------------ *)

WellFormed(r) == r.kind = "Range" /\ r.start < r.end

Covered(rs, v) == \E i \in 1..Len(rs) : contains(rs[i], v)

IsMergeResult == result.op = "merge_overlapping_ranges"

\* C1: the ranges of the container returned by merge_overlapping_ranges are
\* sorted strictly ascending by start, and no two of them overlap or are
\* adjacent.
C1_MergedSortedAndSeparated ==
    IsMergeResult =>
        /\ result.out.kind = "RangeContainer"
        /\ \A i, j \in 1..Len(result.out.ranges) :
              i < j =>
                 /\ result.out.ranges[i].start < result.out.ranges[j].start
                 /\ ~overlaps(result.out.ranges[i], result.out.ranges[j])
                 /\ ~overlaps(result.out.ranges[j], result.out.ranges[i])
                 /\ ~is_adjacent_to(result.out.ranges[i], result.out.ranges[j])
                 /\ ~is_adjacent_to(result.out.ranges[j], result.out.ranges[i])

\* Three ranges added out of order, two of them with the same start, merged
\* into two.
C1_Witness ==
    /\ IsMergeResult
    /\ Len(ranges) = 3
    /\ ranges[1].start > ranges[3].start
    /\ \E i, j \in 1..3 : i # j /\ ranges[i].start = ranges[j].start
    /\ result.out.kind = "RangeContainer"
    /\ Len(result.out.ranges) = 2

\* C2: a value is contained in some range of the merged container if and only
\* if it is contained in some range of the original container.
C2_MergedCoversExactlyTheUnion ==
    IsMergeResult =>
        /\ result.out.kind = "RangeContainer"
        /\ \A v \in Domain : Covered(result.out.ranges, v) <=> Covered(ranges, v)

\* A range nested inside an earlier one and a value left uncovered.
C2_Witness ==
    /\ IsMergeResult
    /\ Len(ranges) >= 2
    /\ \E i, j \in 1..Len(ranges) :
          /\ ranges[i].start < ranges[j].start
          /\ ranges[j].end < ranges[i].end
    /\ \E v \in Domain : ~Covered(ranges, v)
    /\ \E v \in Domain : Covered(ranges, v)
    /\ result.out.kind = "RangeContainer"

\* C3: merging the ranges of a merged container again yields the same ranges
\* in the same order.
C3_MergeIdempotent ==
    (IsMergeResult /\ result.out.kind = "RangeContainer") =>
        LET again == merge_overlapping_ranges(result.out.name, result.out.ranges)
        IN  /\ again.kind = "RangeContainer"
            /\ again.ranges = result.out.ranges

\* A merge that changed an unsorted three-range container into two ranges.
C3_Witness ==
    /\ IsMergeResult
    /\ Len(ranges) = 3
    /\ sorted_by_start(ranges) # ranges
    /\ result.out.kind = "RangeContainer"
    /\ Len(result.out.ranges) = 2
    /\ result.out.ranges # ranges

\* C4: the receiver's name is the name it was constructed with and its ranges
\* are exactly the added ranges in call order, whatever queries ran in between;
\* merge_overlapping_ranges returns another container, named <name>_merged.
C4_OnlyAddsChangeTheReceiver ==
    /\ name = ContainerName
    /\ ranges = added
    /\ IsMergeResult =>
          /\ result.out.kind = "RangeContainer"
          /\ result.out.name = name \o "_merged"
          /\ result.out # RangeContainer(name, ranges)

\* A merge of an unsorted container with a duplicate, whose result differs from
\* the receiver's ranges.
C4_Witness ==
    /\ IsMergeResult
    /\ Len(ranges) = 3
    /\ \E i, j \in 1..3 : i < j /\ ranges[i] = ranges[j]
    /\ sorted_by_start(ranges) # ranges
    /\ result.out.kind = "RangeContainer"
    /\ result.out.ranges # ranges
    /\ result.out.name = "TestContainer_merged"

\* intersection, union and split of the ranges rs return only ranges with
\* start < end (or None, or an error).
DerivedRangesWellFormed(rs) ==
    /\ \A i, j \in 1..Len(rs) :
          /\ intersection(rs[i], rs[j]).kind \in {"None", "Range"}
          /\ intersection(rs[i], rs[j]).kind = "Range" =>
                WellFormed(intersection(rs[i], rs[j]))
          /\ union(rs[i], rs[j]).kind = "list"
          /\ \A k \in 1..Len(union(rs[i], rs[j]).items) :
                WellFormed(union(rs[i], rs[j]).items[k])
    /\ \A i \in 1..Len(rs) : \A p \in Domain :
          split(rs[i], p).kind = "list" =>
             \A k \in 1..2 : WellFormed(split(rs[i], p).items[k])

\* C5: Range(a, b) raises if and only if a >= b, and every range that exists
\* has start < end: the ranges of the container, those returned by
\* merge_overlapping_ranges, get_total_coverage and get_gaps, and those that
\* intersection, union and split return for the ranges a container holds
\* (examined each time ranges have been added).
C5_ConstructionInvariant ==
    /\ result.op = "Range" =>
          /\ IsError(result.out) <=> result.a >= result.b
          /\ ~IsError(result.out) =>
                /\ WellFormed(result.out)
                /\ result.out.start = result.a
                /\ result.out.end = result.b
    /\ \A i \in 1..Len(ranges) : WellFormed(ranges[i])
    /\ IsMergeResult =>
          /\ result.out.kind = "RangeContainer"
          /\ \A i \in 1..Len(result.out.ranges) : WellFormed(result.out.ranges[i])
    /\ result.op = "get_total_coverage" =>
          /\ result.out.kind \in {"None", "Range"}
          /\ result.out.kind = "Range" => WellFormed(result.out)
    /\ result.op = "get_gaps" =>
          /\ result.out.kind = "list"
          /\ \A i \in 1..Len(result.out.items) : WellFormed(result.out.items[i])
    /\ result.op \in {"add_range", "add_ranges"} => DerivedRangesWellFormed(ranges)

\* The constructor refused equal endpoints while the container holds ranges.
C5_Witness ==
    /\ result.op = "Range"
    /\ result.a = result.b
    /\ IsError(result.out)
    /\ Len(ranges) = 3

\* C6: is_adjacent_to and overlaps are never both true of two ranges; ranges
\* that touch at a boundary are adjacent and do not overlap.
C6_AdjacentExcludesOverlap ==
    /\ result.op = "overlaps" =>
          /\ result.out.val => ~is_adjacent_to(result.self, result.other)
          /\ result.self.end = result.other.start => ~result.out.val
    /\ result.op = "is_adjacent_to" =>
          /\ result.out.val => ~overlaps(result.self, result.other)
          /\ result.self.end = result.other.start => result.out.val

\* overlaps answered False for two ranges that touch at a boundary.
C6_Witness ==
    /\ result.op = "overlaps"
    /\ result.self.end = result.other.start
    /\ result.out = Bool(FALSE)
    /\ is_adjacent_to(result.self, result.other)

\* C7: split(point) raises the point-not-in-range error when point < start or
\* point >= end; at point = start it raises the construction error; at every
\* other contained point it returns [Range(start, point), Range(point, end)].
C7_SplitOutcome ==
    result.op = "split" =>
        LET a == result.self.start
            b == result.self.end
            p == result.point
        IN  /\ (p < a \/ p >= b) => result.out = PointNotInRangeError
            /\ p = a => result.out = InvalidRangeError
            /\ (a < p /\ p < b) =>
                  result.out = List(<<[kind |-> "Range", start |-> a, end |-> p],
                                      [kind |-> "Range", start |-> p, end |-> b]>>)

\* split at the start of the range failed in the constructor.
C7_Witness ==
    /\ result.op = "split"
    /\ result.point = result.self.start
    /\ result.out = InvalidRangeError

\* C8: when split(point) returns [r1, r2], r1.union(r2) is the one-element
\* list holding the range that was split.
C8_SplitUnionRoundTrip ==
    (result.op = "split" /\ result.out.kind = "list") =>
        union(result.out.items[1], result.out.items[2]) = List(<<result.self>>)

\* A split that returned two pieces.
C8_Witness ==
    /\ result.op = "split"
    /\ result.out.kind = "list"
    /\ Len(result.out.items) = 2
    /\ result.out.items[1].end = result.point
    /\ result.out.items[2].start = result.point

Matching(value) == SelectSeq(ranges, LAMBDA r : contains(r, value))

\* C9: find_containing_range(v) returns the first range in insertion order
\* that contains v, the first element of filter_by_value(v), and None exactly
\* when filter_by_value(v) is empty; filter_by_value(v) is the subsequence of
\* the ranges containing v, in insertion order.
C9_FindIsFirstOfFilter ==
    /\ result.op = "find_containing_range" =>
          LET f == filter_by_value(ranges, result.value)
          IN  /\ result.out = None <=> f = <<>>
              /\ f # <<>> => result.out = f[1]
              /\ result.out # None =>
                    \E i \in 1..Len(ranges) :
                       /\ ranges[i] = result.out
                       /\ contains(ranges[i], result.value)
                       /\ \A j \in 1..(i - 1) : ~contains(ranges[j], result.value)
    /\ result.op = "filter_by_value" =>
          result.out = List(Matching(result.value))

\* A search whose value lies in two different ranges and outside a third.
C9_Witness ==
    /\ result.op = "find_containing_range"
    /\ Len(ranges) = 3
    /\ Len(Matching(result.value)) = 2
    /\ Matching(result.value)[1] # Matching(result.value)[2]
    /\ ~contains(ranges[1], result.value)
    /\ result.out = ranges[2]

\* C10: get_total_coverage returns None exactly for the empty container;
\* otherwise it returns, without raising, the range from the least start to
\* the greatest end, which contains every value some range contains.
C10_TotalCoverage ==
    result.op = "get_total_coverage" =>
        /\ result.out = None <=> ranges = <<>>
        /\ ranges # <<>> =>
              /\ WellFormed(result.out)
              /\ \A i \in 1..Len(ranges) :
                    /\ result.out.start <= ranges[i].start
                    /\ ranges[i].end <= result.out.end
              /\ \E i \in 1..Len(ranges) : ranges[i].start = result.out.start
              /\ \E i \in 1..Len(ranges) : ranges[i].end = result.out.end
              /\ \A v \in Domain : Covered(ranges, v) => contains(result.out, v)

\* Coverage of an unsorted container with a hole in it.
C10_Witness ==
    /\ result.op = "get_total_coverage"
    /\ Len(ranges) >= 2
    /\ ranges[1].start > ranges[Len(ranges)].start
    /\ result.out.kind = "Range"
    /\ \E v \in Domain : contains(result.out, v) /\ ~Covered(ranges, v)

\* C11: get_gaps never raises, and no value contained in a returned gap is
\* contained in any range of the container.
C11_GapsAreUncovered ==
    result.op = "get_gaps" =>
        /\ result.out.kind = "list"
        /\ \A i \in 1..Len(result.out.items) : \A v \in Domain :
              contains(result.out.items[i], v) => ~Covered(ranges, v)

====
